---- MODULE Spec2Model ----
(***************************************************************************)
(* Request logging and log management of the Mayaglyphs server             *)
(* (src/server/logger.py): size query, search, error sink, geolocation,    *)
(* request logging and rename-based archival, run by concurrent request    *)
(* handlers over one logs directory.                                       *)
(*                                                                         *)
(* Text is a sequence of one-character strings; a file's content is the    *)
(* sequence of its characters, so its size is its length.  The directory   *)
(* is a function from the paths that exist to their content.  An open      *)
(* handle names its inode by the path that currently links it, and follows *)
(* the inode when a rename moves it.                                       *)
(***************************************************************************)
EXTENDS Integers, Sequences, FiniteSets, TLC

VARIABLES fs, now, proc, calls

vars == <<fs, now, proc, calls>>

(***************************************************************************)
(* Bounds of the model.                                                    *)
(***************************************************************************)
\* Calls started in one behaviour.
MaxCalls == 2
\* Last second the clock reaches.
MaxClock == 0
\* logger.py:17 sets 40 MB; the model keeps the comparison and scales the
\* threshold to the size of a few entries.
MAX_LOG_SIZE == 238
\* logger.py:16 sets 1000; scaled to the few lines a file of the model holds.
MAX_RETURN == 2

\* The request handlers; a new call is taken by the first one that is free.
First == "h1"
Procs == {First, "h2"}

(***************************************************************************)
(* Text                                                                    *)
(***************************************************************************)
UPPER == <<"A","B","C","D","E","F","G","H","I","J","K","L","M",
           "N","O","P","Q","R","S","T","U","V","W","X","Y","Z">>
LOWER == <<"a","b","c","d","e","f","g","h","i","j","k","l","m",
           "n","o","p","q","r","s","t","u","v","w","x","y","z">>
DIGITS == <<"0","1","2","3","4","5","6","7","8","9">>

\* str.lower() on one character.
LowerChar(c) ==
    IF \E i \in 1..26 : UPPER[i] = c
    THEN LOWER[CHOOSE i \in 1..26 : UPPER[i] = c]
    ELSE c

\* str.lower()
Lower(s) == [i \in 1..Len(s) |-> LowerChar(s[i])]

\* Characters str.strip() removes.
Whitespace == {" ", "\t", "\n", "\r", "\f"}

\* str.strip(): the text between the first and the last non-blank character.
Strip(s) ==
    LET keep == {i \in 1..Len(s) : s[i] \notin Whitespace}
    IN  IF keep = {} THEN <<>>
        ELSE LET lo == CHOOSE i \in keep : \A j \in keep : i <= j
                 hi == CHOOSE i \in keep : \A j \in keep : j <= i
             IN  SubSeq(s, lo, hi)

\* needle in hay
Contains(hay, needle) ==
    \E i \in 0..(Len(hay) - Len(needle)) :
        SubSeq(hay, i + 1, i + Len(needle)) = needle

\* str.endswith(suffix)
EndsWith(s, suffix) ==
    /\ Len(suffix) <= Len(s)
    /\ SubSeq(s, Len(s) - Len(suffix) + 1, Len(s)) = suffix

\* str.endswith(tuple of suffixes)
EndsWithAny(s, suffixes) == \E x \in suffixes : EndsWith(s, x)

IsPrefix(s, t) == Len(s) <= Len(t) /\ SubSeq(t, 1, Len(s)) = s

\* f.readlines(): the content cut after every newline, line ends kept; a last
\* line without a newline is kept as it is.
RECURSIVE ReadLines(_)
ReadLines(data) ==
    IF data = <<>> THEN <<>>
    ELSE LET ends == {i \in 1..Len(data) : data[i] = "\n"}
         IN  IF ends = {} THEN <<data>>
             ELSE LET e == CHOOSE i \in ends : \A j \in ends : i <= j
                  IN  <<SubSeq(data, 1, e)>> \o ReadLines(SubSeq(data, e + 1, Len(data)))

\* strftime("%Y-%m-%d %H:%M:%S") of second t of the modelled minute.
StrfTimeLine(t) ==
    <<"2","0","2","6","-","0","1","-","0","1"," ","0","0",":","0","0",":","0">>
    \o <<DIGITS[t + 1]>>

\* strftime("%Y%m%d_%H%M%S") of second t of the modelled minute.
StrfTimeFile(t) ==
    <<"2","0","2","6","0","1","0","1","_","0","0","0","0","0">> \o <<DIGITS[t + 1]>>

(***************************************************************************)
(* Configuration (logger.py:9-26)                                          *)
(***************************************************************************)
LogDir == <<"l","o","g","s","/">>
LOG_FILE == LogDir \o <<"r","e","q","u","e","s","t","s",".","l","o","g">>
ERROR_LOG_FILE == LogDir \o <<"e","r","r","o","r","s",".","l","o","g">>

STATIC_ASSET_EXTENSIONS == {
    <<".","c","s","s">>, <<".","j","s">>, <<".","j","p","g">>, <<".","j","p","e","g">>,
    <<".","p","n","g">>, <<".","g","i","f">>, <<".","s","v","g">>, <<".","i","c","o">>,
    <<".","w","o","f","f">>, <<".","w","o","f","f","2">>, <<".","t","t","f">>,
    <<".","o","t","f">>, <<".","e","o","t">>, <<".","m","a","p">>,
    <<".","j","s","o","n">>, <<".","t","x","t">> }

IGNORED_ROUTES == { <<"/","l","o","g","s">> }

GEO_NA == <<"N","/","A">>
GEO_FAILED == <<"G","e","o","I","P","-","F","a","i","l","e","d">>
GEO_UNKNOWN == <<"U","n","k","n","o","w","n">>

\* The log types a caller passes; any other value selects the request log.
LogTypes == {"requests", "error"}

\* get_log_file_path
get_log_file_path(log_type) ==
    IF log_type = "error" THEN ERROR_LOG_FILE ELSE LOG_FILE

(***************************************************************************)
(* Classifier (logger.py:66-95)                                            *)
(***************************************************************************)
\* The text before the first character of `stops`.
CutAt(s, stops) ==
    LET hits == {i \in 1..Len(s) : s[i] \in stops}
    IN  IF hits = {} THEN s
        ELSE SubSeq(s, 1, (CHOOSE i \in hits : \A j \in hits : i <= j) - 1)

\* urllib.parse._splitparams: the path without the parameters of its last segment.
SplitParams(path) ==
    LET slashes == {i \in 1..Len(path) : path[i] = "/"}
        last == IF slashes = {} THEN 1
                ELSE CHOOSE i \in slashes : \A j \in slashes : j <= i
        semis == {i \in last..Len(path) : path[i] = ";"}
    IN  IF semis = {} THEN path
        ELSE SubSeq(path, 1, (CHOOSE i \in semis : \A j \in semis : i <= j) - 1)

\* urlparse(url).path for a URL without a scheme: a leading "//" opens a network
\* location, "#" and "?" end the path, ";" starts the last segment's parameters.
UrlPath(url) ==
    LET afterNetloc ==
            IF Len(url) >= 2 /\ url[1] = "/" /\ url[2] = "/"
            THEN LET rest == SubSeq(url, 3, Len(url))
                 IN  SubSeq(rest, Len(CutAt(rest, {"/", "?", "#"})) + 1, Len(rest))
            ELSE url
    IN  SplitParams(CutAt(afterNetloc, {"?", "#"}))

\* is_static_asset(url_path)
is_static_asset(url_path) ==
    LET path == UrlPath(url_path)
    IN  \/ EndsWithAny(Lower(path), STATIC_ASSET_EXTENSIONS)
        \/ path \in IGNORED_ROUTES

\* The User-Agent strings user_agents.parse(...) flags as a bot: the library is
\* outside the repository, its verdict is an input.
BotAgents == { <<"b","o","t">> }

\* is_bot(user_agent_string)
is_bot(user_agent_string) ==
    IF user_agent_string = <<>> THEN FALSE
    ELSE user_agent_string \in BotAgents

(***************************************************************************)
(* Formatting (logger.py:15, 61-62, 117, 145-155, 168-171, 184)            *)
(***************************************************************************)
\* LOG_FORMAT.format(...)
LOG_FORMAT(timestamp, ip, country, region, city, referrer, method, url, user_agent) ==
    <<"[">> \o timestamp \o <<"]"," ","[">> \o ip \o <<"]"," ","[">>
    \o country \o <<"/">> \o region \o <<"/">> \o city
    \o <<"]"," ","[","R","e","f","e","r","r","e","r",":"," ">> \o referrer
    \o <<"]"," ","[">> \o method \o <<"]"," ">> \o url
    \o <<" ","|"," ","A","g","e","n","t",":"," ">> \o user_agent

\* log_entry = f"[{timestamp}] {message}"
ErrorEntry(timestamp, message) ==
    <<"[">> \o timestamp \o <<"]"," ">> \o message

\* f"GeoIP failed for {ip_address}: {e}"
GeoFailedMessage(ip_address, e) ==
    <<"G","e","o","I","P"," ","f","a","i","l","e","d"," ","f","o","r"," ">>
    \o ip_address \o <<":"," ">> \o e

\* f"OSError during log archive: {e}"
ArchiveFailedMessage(e) ==
    <<"O","S","E","r","r","o","r"," ","d","u","r","i","n","g"," ","l","o","g"," ",
      "a","r","c","h","i","v","e",":"," ">> \o e

\* prefix = "errors" if log_type == 'error' else "requests"
ArchivePrefix(log_type) ==
    IF log_type = "error" THEN <<"e","r","r","o","r","s">>
    ELSE <<"r","e","q","u","e","s","t","s">>

\* archive_filename = f"{prefix}_archive_{timestamp}.log"
ArchiveFilename(log_type, t) ==
    ArchivePrefix(log_type) \o <<"_","a","r","c","h","i","v","e","_">>
    \o StrfTimeFile(t) \o <<".","l","o","g">>

\* archive_path = os.path.join(os.path.dirname(target_file), archive_filename)
ArchivePath(log_type, t) == LogDir \o ArchiveFilename(log_type, t)

(***************************************************************************)
(* Search (logger.py:44-54)                                                *)
(***************************************************************************)
\* The loop without its break: every match is returned.
RECURSIVE SearchLoopUnbounded(_, _, _, _)
SearchLoopUnbounded(lines, i, term, results) ==
    IF i = 0 THEN results
    ELSE IF Contains(Lower(lines[i]), Lower(term))
         THEN SearchLoopUnbounded(lines, i - 1, term, Append(results, Strip(lines[i])))
         ELSE SearchLoopUnbounded(lines, i - 1, term, results)

\* The loop over reversed(lines): lines[i] down to lines[1], appending the
\* stripped line on a match and leaving once MAX_RETURN results are held.
RECURSIVE SearchLoop(_, _, _, _)
SearchLoop(lines, i, term, results) ==
    IF i = 0 THEN results
    ELSE IF Contains(Lower(lines[i]), Lower(term))
         THEN LET r == Append(results, Strip(lines[i]))
              IN  IF Len(r) >= MAX_RETURN THEN r
                  ELSE SearchLoop(lines, i - 1, term, r)
         ELSE SearchLoop(lines, i - 1, term, results)

\* results of search_logs over a file that exists with content `data`.
SearchResults(term, data) ==
    LET lines == ReadLines(data)
    IN  SearchLoop(lines, Len(lines), term, <<>>)

(***************************************************************************)
(* Inputs                                                                  *)
(***************************************************************************)
\* request.remote_addr is None
NoAddr == <<"None">>

LOCAL_IP == <<"1","2","7",".","0",".","0",".","1">>
LOCALHOST == <<"l","o","c","a","l","h","o","s","t">>
REMOTE_IP == <<"8",".","8">>

PageUrl == <<"/","a","?">>

\* A page asked for by a remote client, and by a local one whose User-Agent
\* ends in a blank.
RemotePage == [full_path |-> PageUrl, user_agent |-> <<"M">>, remote_addr |-> REMOTE_IP]
LocalPage == [full_path |-> PageUrl, user_agent |-> <<"m"," ">>, remote_addr |-> LOCAL_IP]

\* An asset whose name holds a "#" (asked for as /a%23.css: request.path is
\* the decoded path, request.full_path is the path, "?" and the query).
HashAsset == [full_path |-> <<"/","a","#",".","c","s","s","?">>, user_agent |-> <<"M">>,
              remote_addr |-> LOCAL_IP]

\* The requests a handler logs: the two pages, an asset whose extension is in
\* upper case and followed by a query, one whose name holds a "#", the log
\* viewer's own route, a crawler, and a page from a client without an address.
Requests == {
    RemotePage, LocalPage, HashAsset,
    [full_path |-> <<"/","a",".","C","S","S","?","v">>, user_agent |-> <<"M">>,
     remote_addr |-> REMOTE_IP],
    [full_path |-> <<"/","l","o","g","s","?">>, user_agent |-> <<"M">>,
     remote_addr |-> LOCAL_IP],
    [full_path |-> PageUrl, user_agent |-> <<"b","o","t">>, remote_addr |-> REMOTE_IP],
    [full_path |-> PageUrl, user_agent |-> <<"M">>, remote_addr |-> NoAddr] }

NoRequest == [full_path |-> <<>>, user_agent |-> <<>>, remote_addr |-> <<>>]

\* request.headers.get('Referer', 'N/A') and request.method of the modelled requests
Referer == GEO_NA
Method == <<"G","E","T">>

\* Addresses get_geolocation is called with.
Addresses == {LOCAL_IP, LOCALHOST, REMOTE_IP}

\* Search terms: the empty term, a country in the other case, the sentinel of
\* a failed lookup, a blank before the line end.
Terms == { <<>>, <<"u","s">>, <<"g","e","o","i","p">>, <<" ","\n">> }

\* Messages the serving layer hands to log_error_to_file (server.py:48).
Messages == { <<"H","T","T","P"," ","E","r","r","o","r"," ","4","0","4">> }

\* Outcomes of requests.get(...) followed by raise_for_status(): a JSON object,
\* or one of the RequestException subclasses.
GeoFailures == {"Timeout", "HTTPError"}

\* The object with every key, and the one without a city.
FullData == [country |-> <<"U","S">>, regionName |-> <<"C","A">>, city |-> <<"S","F">>]
PartData == [country |-> <<"U","S">>, regionName |-> <<"C","A">>]

\* The inputs of the sequential runs, and the fewer the concurrent runs draw from.
Wide == [requests |-> Requests, terms |-> Terms, messages |-> Messages,
         addresses |-> Addresses, data |-> {FullData, PartData},
         failures |-> GeoFailures]
Narrow == [requests |-> {RemotePage, LocalPage}, terms |-> { <<>> },
           messages |-> Messages, addresses |-> {REMOTE_IP},
           data |-> {PartData}, failures |-> {"Timeout"}]

\* data.get(key, 'Unknown')
DataGet(data, key) == IF key \in DOMAIN data THEN data[key] ELSE GEO_UNKNOWN

\* str(e) of an exception: the library's text, a short stand-in for each.
ExcText(e) ==
    CASE e = "Timeout" -> <<"t","i","m","e","o","u","t">>
      [] e = "HTTPError" -> <<"4","2","9">>
      [] e = "PermissionError" -> <<"E","A","C","C","E","S">>
      [] e = "FileNotFoundError" -> <<"E","N","O","E","N","T">>
      [] OTHER -> <<"e","r","r">>

(***************************************************************************)
(* State                                                                   *)
(***************************************************************************)
\* The handle of an inode no path links any more.
Unlinked == <<"(unlinked)">>

\* A handler between calls, and the fields of a call:
\*   op, pc        the function called and the statement it is at
\*   log_type, term, req, ip, msg   arguments and locals
\*   stamp         the second read by datetime.now()
\*   entry         log_entry, the text to write
\*   fd            the open file, by the path that links its inode
\*   snap          the target's content when archive_logs found it
\*   geo           (country, region, city)
\*   net           an outbound lookup was issued
\*   wrote         the call wrote its entry
\*   path, filename   archive_path and archive_filename
\*   ret           the call returned a value ("value") or None ("null")
\*   size, results, count   the value returned
\*   exc           the exception that left the call
\*   route, stage  the admin route do_GET serves and where do_GET is: in its
\*                 try block ("try"), in send_error ("send_error"), left ("left")
\*   code          the status send_error was called with
\*   resp          what do_GET has written to the client
Idle == [op |-> "none", pc |-> "done", log_type |-> "requests", term |-> <<>>,
         req |-> NoRequest, ip |-> <<>>, msg |-> <<>>, stamp |-> 0, entry |-> <<>>,
         fd |-> <<>>, snap |-> <<>>, geo |-> <<>>, net |-> FALSE, wrote |-> FALSE,
         ret |-> "none", size |-> 0, results |-> <<>>, count |-> 0,
         path |-> <<>>, filename |-> <<>>, exc |-> "none",
         route |-> "none", stage |-> "none", code |-> 0, resp |-> "none"]

Exists(path) == path \in DOMAIN fs

\* os.path.getsize of a file that exists
GetSize(path) == Len(fs[path])

\* The check written with > : a file exactly at the threshold still takes a write.
AtCapStrict(size) == size > MAX_LOG_SIZE

\* The check left out: every write goes through.
AtCapNever(size) == FALSE

\* size >= MAX_LOG_SIZE, the check that drops a write (logger.py:59, 122)
AtCap(size) == size >= MAX_LOG_SIZE

\* The directory after open(path, 'a'): the file is created empty if absent.
OpenAppend(path) ==
    IF Exists(path) THEN fs ELSE [q \in DOMAIN fs \cup {path} |->
                                     IF q = path THEN <<>> ELSE fs[q]]

\* The directory after open(path, 'w'): created if absent, emptied if present.
OpenTruncate(path) ==
    [q \in DOMAIN fs \cup {path} |-> IF q = path THEN <<>> ELSE fs[q]]

\* A write that puts the text before what the file holds.
WriteInFront(fd, text) ==
    IF fd \in DOMAIN fs THEN [fs EXCEPT ![fd] = text \o @] ELSE fs

\* The directory after f.write(text) and close on handle fd (append mode: the
\* text goes to the end of the inode, wherever it is linked now).
WriteAppend(fd, text) ==
    IF fd \in DOMAIN fs THEN [fs EXCEPT ![fd] = @ \o text] ELSE fs

\* A rotation that makes the archive without the content: src goes, dst is empty.
RenameEmpty(src, dst) ==
    [q \in (DOMAIN fs \ {src}) \cup {dst} |-> IF q = dst THEN <<>> ELSE fs[q]]

\* The directory after os.rename(src, dst): dst is replaced if it exists.
Rename(src, dst) ==
    [q \in (DOMAIN fs \ {src}) \cup {dst} |-> IF q = dst THEN fs[src] ELSE fs[q]]

\* An open handle after os.rename(src, dst): it follows its inode.
FollowRename(fd, src, dst) ==
    IF fd = src THEN dst ELSE IF fd = dst THEN Unlinked ELSE fd

\* The call ends: it returns with the fields of r, its handle closed.
Return(r) == [r EXCEPT !.pc = "done", !.fd = <<>>]

\* The call ends with exception e leaving it.
Raise(r, e) == [r EXCEPT !.pc = "done", !.fd = <<>>, !.exc = e]

\* A directory holding `path` with content `data`, and one holding nothing.
Holding(path, data) == [q \in {path} |-> data]
Nothing == [q \in {} |-> <<>>]

\* Two directories put together.
Both(d, e) == [q \in DOMAIN d \cup DOMAIN e |-> IF q \in DOMAIN d THEN d[q] ELSE e[q]]

\* Lines earlier calls wrote: log_flask_request for the local page and for the
\* remote page with its location found, log_error_to_file for a message.
LocalLine ==
    LOG_FORMAT(StrfTimeLine(0), LOCAL_IP, GEO_NA, GEO_NA, GEO_NA, Referer, Method,
               LocalPage.full_path, LocalPage.user_agent) \o <<"\n">>
RemoteLine ==
    LOG_FORMAT(StrfTimeLine(0), REMOTE_IP, FullData.country, FullData.regionName,
               FullData.city, Referer, Method, RemotePage.full_path,
               RemotePage.user_agent) \o <<"\n">>
ErrorLine ==
    ErrorEntry(StrfTimeLine(0), CHOOSE m \in Messages : TRUE) \o <<"\n">>

\* The error log after the calls that filled it: lines until the size check stops them.
RECURSIVE Filled(_)
Filled(data) == IF Len(data) >= MAX_LOG_SIZE THEN data ELSE Filled(data \o ErrorLine)

\* The logs directory when the server starts: nothing in the repository creates
\* the log files, so each is there (from the deployment or an earlier run, empty
\* or with the lines written then) or is not.
Init ==
    /\ \E l \in {Nothing, Holding(LOG_FILE, LocalLine \o RemoteLine),
                 Holding(LOG_FILE, LocalLine \o RemoteLine \o RemoteLine)},
          e \in {Nothing, Holding(ERROR_LOG_FILE, <<>>)} : fs = Both(l, e)
    /\ now = 0
    /\ proc = [p \in Procs |-> Idle]
    /\ calls = 0

SeqInit ==
    /\ \E l \in {Nothing, Holding(LOG_FILE, <<>>),
                 Holding(LOG_FILE, LocalLine \o RemoteLine)},
          e \in {Nothing, Holding(ERROR_LOG_FILE, <<>>),
                 Holding(ERROR_LOG_FILE, Filled(<<>>))} : fs = Both(l, e)
    /\ now = 0
    /\ proc = [p \in Procs |-> Idle]
    /\ calls = 0

(***************************************************************************)
(* Calls                                                                   *)
(***************************************************************************)
\* Handler p is free and takes the next call.
Free(p) ==
    /\ proc[p].pc = "done"
    /\ proc[p].stage \in {"none", "left"}
    /\ p = First \/ proc[First].pc # "done"
    /\ calls < MaxCalls

\* p starts call r.  What the finished calls returned has gone to their callers:
\* their records are kept until the next call starts.
Start(p, r) ==
    /\ calls' = calls + 1
    /\ proc' = [q \in Procs |->
                  IF q = p THEN r
                  ELSE IF proc[q].pc = "done" /\ proc[q].stage \in {"none", "left"}
                       THEN Idle ELSE proc[q]]
    /\ UNCHANGED <<fs, now>>

CallGetLogSize(p) ==
    /\ Free(p)
    /\ \E t \in LogTypes :
          Start(p, [Idle EXCEPT !.op = "get_log_size", !.pc = "gs_exists", !.log_type = t])

CallSearchLogs(p, in) ==
    /\ Free(p)
    /\ \E t \in LogTypes, term \in in.terms :
          Start(p, [Idle EXCEPT !.op = "search_logs", !.pc = "sl_exists",
                                !.log_type = t, !.term = term])

CallLogError(p, in) ==
    /\ Free(p)
    /\ \E m \in in.messages :
          Start(p, [Idle EXCEPT !.op = "log_error_to_file", !.pc = "le_getsize", !.msg = m])

CallGetGeolocation(p, in) ==
    /\ Free(p)
    /\ \E a \in in.addresses :
          Start(p, [Idle EXCEPT !.op = "get_geolocation", !.pc = "gg_request", !.ip = a])

CallLogFlaskRequest(p, in) ==
    /\ Free(p)
    /\ \E q \in in.requests :
          Start(p, [Idle EXCEPT !.op = "log_flask_request", !.pc = "lf_getsize", !.req = q])

CallArchiveLogs(p) ==
    /\ Free(p)
    /\ \E t \in LogTypes :
          Start(p, [Idle EXCEPT !.op = "archive_logs", !.pc = "al_exists", !.log_type = t])

\* One step of p that leaves the directory as it is.
Local(p, r) ==
    /\ proc' = [proc EXCEPT ![p] = r]
    /\ UNCHANGED <<fs, now, calls>>

\* The seconds datetime.now() can show: the clock has not gone back since it
\* was last read.  `now` is the second last read.
ClockReadings == now..MaxClock

\* One step of p that reads second t off the clock and leaves the directory.
Timed(p, t, r) ==
    /\ now' = t
    /\ proc' = [proc EXCEPT ![p] = r]
    /\ UNCHANGED <<fs, calls>>

(***************************************************************************)
(* get_log_size (logger.py:34-39)                                          *)
(***************************************************************************)
\* get_log_size without its os.path.exists test, as log_error_to_file reads the size.
GetLogSizeUnchecked(p) ==
    /\ proc[p].pc = "gs_exists"
    /\ Local(p, [proc[p] EXCEPT !.pc = "gs_getsize"])

\* if os.path.exists(target_file): ... return 0
GetLogSizeExists(p) ==
    LET r == proc[p] IN
    /\ r.pc = "gs_exists"
    /\ IF Exists(get_log_file_path(r.log_type))
       THEN Local(p, [r EXCEPT !.pc = "gs_getsize"])
       ELSE Local(p, Return([r EXCEPT !.ret = "value", !.size = 0]))

\* return os.path.getsize(target_file)
GetLogSizeGetsize(p) ==
    LET r == proc[p]
        target == get_log_file_path(r.log_type) IN
    /\ r.pc = "gs_getsize"
    /\ IF Exists(target)
       THEN Local(p, Return([r EXCEPT !.ret = "value", !.size = GetSize(target)]))
       ELSE Local(p, Raise(r, "FileNotFoundError"))

(***************************************************************************)
(* search_logs (logger.py:41-54)                                           *)
(***************************************************************************)
\* if os.path.exists(target_file): ... return {'results': [], 'count': 0}
SearchLogsExists(p) ==
    LET r == proc[p] IN
    /\ r.pc = "sl_exists"
    /\ IF Exists(get_log_file_path(r.log_type))
       THEN Local(p, [r EXCEPT !.pc = "sl_read"])
       ELSE Local(p, Return([r EXCEPT !.ret = "value", !.results = <<>>, !.count = 0]))

\* open(target_file, 'r'), readlines(), the loop, the return
SearchLogsRead(p) ==
    LET r == proc[p]
        target == get_log_file_path(r.log_type) IN
    /\ r.pc = "sl_read"
    /\ IF Exists(target)
       THEN LET found == SearchResults(r.term, fs[target])
            IN  Local(p, Return([r EXCEPT !.ret = "value", !.results = found,
                                          !.count = Len(found)]))
       ELSE Local(p, Raise(r, "FileNotFoundError"))

(***************************************************************************)
(* log_error_to_file (logger.py:57-64) and what its callers do next        *)
(***************************************************************************)
\* The entry log_flask_request formats once it holds the location.
RequestEntry(r) ==
    LOG_FORMAT(StrfTimeLine(r.stamp), r.ip, r.geo[1], r.geo[2], r.geo[3],
               Referer, Method, r.req.full_path, r.req.user_agent)

\* get_geolocation returns `geo`: to its caller, or into log_flask_request,
\* which formats the entry and goes on to open the log (logger.py:143-157).
AfterGeolocation(r, geo) ==
    IF r.op = "log_flask_request"
    THEN LET g == [r EXCEPT !.geo = geo]
         IN  [g EXCEPT !.pc = "lf_open", !.entry = RequestEntry(g)]
    ELSE Return([r EXCEPT !.ret = "value", !.geo = geo])

\* log_error_to_file returns: to the serving layer, into get_geolocation's
\* handler (logger.py:117-118) or into archive_logs' handler (logger.py:184-185).
AfterLogError(r) ==
    CASE r.op = "archive_logs" -> Return([r EXCEPT !.ret = "null"])
      [] r.op \in {"get_geolocation", "log_flask_request"} ->
            AfterGeolocation(r, <<GEO_FAILED, GEO_FAILED, GEO_FAILED>>)
      [] OTHER -> Return(r)

\* if os.path.getsize(ERROR_LOG_FILE) >= MAX_LOG_SIZE: return; timestamp; log_entry
LogErrorGetsize(p) ==
    LET r == proc[p] IN
    /\ r.pc = "le_getsize"
    /\ IF ~Exists(ERROR_LOG_FILE)
       THEN Local(p, Raise(r, "FileNotFoundError"))
       ELSE IF AtCap(GetSize(ERROR_LOG_FILE))
            THEN Local(p, AfterLogError(r))
            ELSE \E t \in ClockReadings :
                    Timed(p, t, [r EXCEPT !.pc = "le_open",
                                          !.entry = ErrorEntry(StrfTimeLine(t), r.msg)])

\* with open(ERROR_LOG_FILE, 'a') as f
LogErrorOpen(p) ==
    LET r == proc[p] IN
    /\ r.pc = "le_open"
    /\ fs' = OpenAppend(ERROR_LOG_FILE)
    /\ proc' = [proc EXCEPT ![p] = [r EXCEPT !.pc = "le_write", !.fd = ERROR_LOG_FILE]]
    /\ UNCHANGED <<now, calls>>

\* f.write(log_entry + "\n") and the close that ends the with block
LogErrorWrite(p) ==
    LET r == proc[p] IN
    /\ r.pc = "le_write"
    /\ fs' = WriteAppend(r.fd, r.entry \o <<"\n">>)
    /\ proc' = [proc EXCEPT ![p] = AfterLogError([r EXCEPT !.fd = <<>>])]
    /\ UNCHANGED <<now, calls>>

(***************************************************************************)
(* get_geolocation (logger.py:97-118)                                      *)
(***************************************************************************)
\* A local address answered N/A only after the lookup has gone out.
GeolocationLocalLate(p) ==
    LET r == proc[p] IN
    /\ r.pc = "gg_request"
    /\ r.ip \in {LOCAL_IP, LOCALHOST}
    /\ Local(p, AfterGeolocation([r EXCEPT !.net = TRUE], <<GEO_NA, GEO_NA, GEO_NA>>))

\* The local fast path.
GeolocationLocal(p) ==
    LET r == proc[p] IN
    /\ r.pc = "gg_request"
    /\ r.ip \in {LOCAL_IP, LOCALHOST}
    /\ Local(p, AfterGeolocation(r, <<GEO_NA, GEO_NA, GEO_NA>>))

\* requests.get, raise_for_status, response.json() and the three data.get
GeolocationAnswered(p, in) ==
    LET r == proc[p] IN
    /\ r.pc = "gg_request"
    /\ r.ip \notin {LOCAL_IP, LOCALHOST}
    /\ \E data \in in.data :
          Local(p, AfterGeolocation([r EXCEPT !.net = TRUE],
                      <<DataGet(data, "country"), DataGet(data, "regionName"),
                        DataGet(data, "city")>>))

\* except requests.RequestException as e: log_error_to_file(...)
GeolocationFailed(p, in) ==
    LET r == proc[p] IN
    /\ r.pc = "gg_request"
    /\ r.ip \notin {LOCAL_IP, LOCALHOST}
    /\ \E e \in in.failures :
          Local(p, [r EXCEPT !.net = TRUE, !.pc = "le_getsize",
                             !.msg = GeoFailedMessage(r.ip, ExcText(e))])

(***************************************************************************)
(* log_flask_request (logger.py:120-161)                                   *)
(***************************************************************************)
\* log_flask_request without its two classifier tests: every request below the
\* cap goes on to the lookup.
LogRequestUnclassified(p) ==
    LET r == proc[p]
        ip == IF r.req.remote_addr = NoAddr
              THEN <<"U","n","k","n","o","w","n"," ","I","P">>
              ELSE r.req.remote_addr IN
    /\ r.pc = "lf_getsize"
    /\ IF ~Exists(LOG_FILE)
       THEN Local(p, Raise(r, "FileNotFoundError"))
       ELSE IF AtCap(GetSize(LOG_FILE))
            THEN Local(p, Return(r))
            ELSE \E t \in ClockReadings :
                    Timed(p, t, [r EXCEPT !.pc = "gg_request", !.ip = ip, !.stamp = t])

\* The size check, the timestamp, the request's fields and the classifier.
LogRequestGetsize(p) ==
    LET r == proc[p]
        ip == IF r.req.remote_addr = NoAddr
              THEN <<"U","n","k","n","o","w","n"," ","I","P">>
              ELSE r.req.remote_addr IN
    /\ r.pc = "lf_getsize"
    /\ IF ~Exists(LOG_FILE)
       THEN Local(p, Raise(r, "FileNotFoundError"))
       ELSE IF AtCap(GetSize(LOG_FILE))
            THEN Local(p, Return(r))
            ELSE IF is_static_asset(r.req.full_path)
                 THEN Local(p, Return(r))
                 ELSE IF is_bot(r.req.user_agent)
                      THEN Local(p, Return(r))
                      ELSE \E t \in ClockReadings :
                              Timed(p, t, [r EXCEPT !.pc = "gg_request", !.ip = ip,
                                                    !.stamp = t])

\* with open(LOG_FILE, 'a') as f, or the IOError the handler prints (logger.py:160-161)
LogRequestOpen(p) ==
    LET r == proc[p] IN
    /\ r.pc = "lf_open"
    /\ \/ /\ fs' = OpenAppend(LOG_FILE)
          /\ proc' = [proc EXCEPT ![p] = [r EXCEPT !.pc = "lf_write", !.fd = LOG_FILE]]
          /\ UNCHANGED <<now, calls>>
       \/ Local(p, Return(r))

\* f.write(log_entry + "\n") and the close that ends the with block
LogRequestWrite(p) ==
    LET r == proc[p] IN
    /\ r.pc = "lf_write"
    /\ fs' = WriteAppend(r.fd, r.entry \o <<"\n">>)
    /\ proc' = [proc EXCEPT ![p] = Return([r EXCEPT !.wrote = TRUE])]
    /\ UNCHANGED <<now, calls>>

(***************************************************************************)
(* archive_logs (logger.py:163-187)                                        *)
(***************************************************************************)
\* if os.path.exists(target_file): prefix, timestamp, archive_filename, archive_path
ArchiveExists(p) ==
    LET r == proc[p]
        target == get_log_file_path(r.log_type) IN
    /\ r.pc = "al_exists"
    /\ IF Exists(target)
       THEN \E t \in ClockReadings :
               Timed(p, t, [r EXCEPT !.pc = "al_rename", !.stamp = t, !.snap = fs[target],
                                     !.path = ArchivePath(r.log_type, t),
                                     !.filename = ArchiveFilename(r.log_type, t)])
       ELSE Local(p, Return([r EXCEPT !.ret = "null"]))

\* except OSError as e: log_error_to_file(f"OSError during log archive: {e}")
ArchiveCaught(r, e) ==
    [r EXCEPT !.pc = "le_getsize", !.msg = ArchiveFailedMessage(ExcText(e))]

\* os.rename(target_file, archive_path): every handle on the renamed inode
\* follows it, a handle on a replaced archive is left on an unlinked inode.
ArchiveRename(p) ==
    LET r == proc[p]
        target == get_log_file_path(r.log_type)
        dst == r.path IN
    /\ r.pc = "al_rename"
    /\ Exists(target)
    /\ fs' = Rename(target, dst)
    /\ proc' = [q \in Procs |->
                  IF q = p THEN [r EXCEPT !.pc = "al_create"]
                  ELSE [proc[q] EXCEPT !.fd = FollowRename(@, target, dst)]]
    /\ UNCHANGED <<now, calls>>

\* os.rename raises: the target is gone (another rotation took it), or the
\* system refuses the rename.
ArchiveRenameFails(p) ==
    LET r == proc[p]
        target == get_log_file_path(r.log_type) IN
    /\ r.pc = "al_rename"
    /\ IF Exists(target)
       THEN Local(p, ArchiveCaught(r, "PermissionError"))
       ELSE Local(p, ArchiveCaught(r, "FileNotFoundError"))

\* with open(target_file, 'w'): pass; return archive_path, archive_filename
ArchiveCreate(p) ==
    LET r == proc[p]
        target == get_log_file_path(r.log_type) IN
    /\ r.pc = "al_create"
    /\ fs' = OpenTruncate(target)
    /\ proc' = [proc EXCEPT ![p] =
                  Return([r EXCEPT !.ret = "value"])]
    /\ UNCHANGED <<now, calls>>

\* open(target_file, 'w') raises
ArchiveCreateFails(p) ==
    LET r == proc[p] IN
    /\ r.pc = "al_create"
    /\ Local(p, ArchiveCaught(r, "PermissionError"))

(***************************************************************************)
(* The admin routes of do_GET (server.py:81-135), for an authorized client *)
(***************************************************************************)
\* self.path of the three routes: the route, then the type parameter (and an
\* empty q for the search).
RoutePath(route, log_type) ==
    LET kind == IF log_type = "error" THEN <<"e","r","r","o","r">>
                ELSE <<"r","e","q","u","e","s","t","s">>
    IN  CASE route = "stats" -> <<"/","a","p","i","/","l","o","g","s","/","s","t","a","t","s","?","t","y","p","e","=">> \o kind
          [] route = "search" ->
                <<"/","a","p","i","/","l","o","g","s","/","s","e","a","r","c","h","?","t","y","p","e","=">>
                \o kind \o <<"&","q","=">>
          [] OTHER -> <<"/","a","p","i","/","l","o","g","s","/","a","r","c","h","i","v","e","?","t","y","p","e","=">> \o kind

\* f"HTTP Error {code} ({message}): {self.path}" with code 500 and the
\* standard message of that code (server.py:43-48)
HttpErrorMessage(path) ==
    <<"H","T","T","P"," ","E","r","r","o","r"," ","5","0","0"," ","(","I","n","t","e","r","n","a","l"," ","S","e","r","v","e","r"," ","E","r","r","o","r",")",":"," ">>
    \o path

\* An authorized GET on /api/logs/stats: logger.get_log_size(log_type) inside try.
CallStats(p) ==
    /\ Free(p)
    /\ \E t \in LogTypes :
          Start(p, [Idle EXCEPT !.op = "get_log_size", !.pc = "gs_exists", !.log_type = t,
                                !.route = "stats", !.stage = "try"])

\* An authorized GET on /api/logs/search: logger.search_logs(search_term, log_type).
CallSearch(p) ==
    /\ Free(p)
    /\ \E t \in LogTypes :
          Start(p, [Idle EXCEPT !.op = "search_logs", !.pc = "sl_exists", !.log_type = t,
                                !.term = <<>>, !.route = "search", !.stage = "try"])

\* An authorized GET on /api/logs/archive.
CallArchive(p) ==
    /\ Free(p)
    /\ \E t \in LogTypes :
          Start(p, [Idle EXCEPT !.op = "do_GET", !.pc = "dg_archive", !.log_type = t,
                                !.route = "archive", !.stage = "try"])

\* except Exception as e: self.send_error(500, explain=...), up to its call of
\* logger.log_error_to_file (server.py:41-48).
SendError(r) ==
    [Idle EXCEPT !.op = "log_error_to_file", !.pc = "le_getsize",
                 !.msg = HttpErrorMessage(RoutePath(r.route, r.log_type)),
                 !.log_type = r.log_type, !.route = r.route,
                 !.stage = "send_error", !.code = 500]

\* self.send_json(...) after the logger call returned: send_response(200) calls
\* self.log_request, which calls logger.log_request_to_file, a name logger does
\* not define; the AttributeError, or the exception the logger call raised, is
\* caught by the route's except Exception.
DoGetSendJson(p) ==
    LET r == proc[p] IN
    /\ r.stage = "try" /\ r.pc = "done"
    /\ r.route \in {"stats", "search"}
    /\ Local(p, SendError(r))

\* logger.archive_logs(self, log_type): two arguments for a function of one,
\* a TypeError before archive_logs runs, caught by the route's except Exception.
DoGetArchive(p) ==
    LET r == proc[p] IN
    /\ r.pc = "dg_archive"
    /\ Local(p, SendError(r))

\* send_error after log_error_to_file: the exception it raised leaves send_error
\* and do_GET; otherwise send_response(code) calls self.log_request and the
\* AttributeError leaves them, before anything is written to the client.
DoGetSendError(p) ==
    LET r == proc[p] IN
    /\ r.stage = "send_error" /\ r.pc = "done"
    /\ IF r.exc # "none"
       THEN Local(p, [r EXCEPT !.stage = "left"])
       ELSE Local(p, [r EXCEPT !.stage = "left", !.exc = "AttributeError"])

AdminStep(p) ==
    \/ CallStats(p)
    \/ CallSearch(p)
    \/ CallArchive(p)
    \/ DoGetSendJson(p)
    \/ DoGetArchive(p)
    \/ DoGetSendError(p)

(***************************************************************************)
(* The specifications                                                      *)
(***************************************************************************)
Step(p, in) ==
    \/ CallGetLogSize(p)
    \/ CallSearchLogs(p, in)
    \/ CallLogError(p, in)
    \/ CallGetGeolocation(p, in)
    \/ CallLogFlaskRequest(p, in)
    \/ CallArchiveLogs(p)
    \/ GetLogSizeExists(p)
    \/ GetLogSizeGetsize(p)
    \/ SearchLogsExists(p)
    \/ SearchLogsRead(p)
    \/ LogErrorGetsize(p)
    \/ LogErrorOpen(p)
    \/ LogErrorWrite(p)
    \/ GeolocationLocal(p)
    \/ GeolocationAnswered(p, in)
    \/ GeolocationFailed(p, in)
    \/ LogRequestGetsize(p)
    \/ LogRequestOpen(p)
    \/ LogRequestWrite(p)
    \/ ArchiveExists(p)
    \/ ArchiveRename(p)
    \/ ArchiveRenameFails(p)
    \/ ArchiveCreate(p)
    \/ ArchiveCreateFails(p)

\* Handlers run concurrently: any handler takes the next step.
Next == \E p \in Procs : Step(p, Narrow)

Spec == Init /\ [][Next]_vars

\* One call at a time: each call, of a function of logger or of an admin route,
\* runs to its end before the next starts, so the first handler takes them all.
SeqNext == Step(First, Wide) \/ AdminStep(First)

SeqSpec == SeqInit /\ [][SeqNext]_vars

(***************************************************************************)
(* Properties                                                              *)
(***************************************************************************)
ActiveFiles == {LOG_FILE, ERROR_LOG_FILE}

\* The size get_log_size reports: 0 for a file that is not there.
SizeOf(path) == IF Exists(path) THEN Len(fs[path]) ELSE 0

Reverse(s) == [i \in 1..Len(s) |-> s[Len(s) + 1 - i]]

Take(s, n) == SubSeq(s, 1, IF Len(s) < n THEN Len(s) ELSE n)

\* A line without the newline that ends it.
Chomp(line) ==
    IF line # <<>> /\ line[Len(line)] = "\n" THEN SubSeq(line, 1, Len(line) - 1) ELSE line

\* The lines of a file as text without line ends, oldest first.
PlainLines(data) == [i \in 1..Len(ReadLines(data)) |-> Chomp(ReadLines(data)[i])]

\* term is in text, whatever the case.
Matches(text, term) == Contains(Lower(text), Lower(term))

\* C1: archive_logs on an active file that exists with content X, run with no
\* other call beside it and with the rename and the recreation succeeding,
\* returns the archive's path and filename; the active file then exists with
\* size 0 and the archive, another file of the same directory, holds exactly X.
C1_ArchiveRotates ==
    \A p \in Procs :
        LET r == proc[p]
            target == get_log_file_path(r.log_type) IN
        (r.op = "archive_logs" /\ r.pc = "done" /\ r.path # <<>> /\ r.msg = <<>>)
        => /\ r.ret = "value" /\ r.exc = "none"
           /\ Exists(target) /\ Len(fs[target]) = 0
           /\ r.path # target /\ Exists(r.path) /\ fs[r.path] = r.snap
           /\ r.path = LogDir \o r.filename

\* An archive call has returned the archive of a file that held lines.
C1_Witness ==
    \E p \in Procs :
        /\ proc[p].op = "archive_logs" /\ proc[p].pc = "done"
        /\ proc[p].ret = "value" /\ proc[p].snap # <<>>
        /\ fs[proc[p].path] = proc[p].snap

\* C2: when one log_flask_request and one archive_logs('requests') have run
\* interleaved and both have finished, the line the request call wrote is in
\* some file of the directory (the archive or the active file), and what the
\* active file held when the rotation started is in the archive.
C2_NoLineLost ==
    \A p, q \in Procs :
        LET w == proc[p]
            a == proc[q] IN
        (/\ calls = 2
         /\ w.op = "log_flask_request" /\ w.pc = "done" /\ w.wrote
         /\ a.op = "archive_logs" /\ a.log_type = "requests" /\ a.pc = "done")
        => /\ \E f \in DOMAIN fs : Contains(fs[f], w.entry \o <<"\n">>)
           /\ a.ret = "value" => (Exists(a.path) /\ IsPrefix(a.snap, fs[a.path]))

\* C3: a step of get_log_size, search_logs or archive_logs that finds its file
\* absent ends the call with the empty result (0, no results and count 0,
\* None), raises nothing and leaves the directory as it was.
C3_AbsentIsEmpty ==
    [][\A p \in Procs :
          LET r == proc[p]
              n == proc'[p] IN
          (/\ r.pc \in {"gs_exists", "sl_exists", "al_exists"}
           /\ ~Exists(get_log_file_path(r.log_type))
           /\ n # r)
          => /\ n.pc = "done" /\ n.exc = "none"
             /\ fs' = fs
             /\ r.op = "get_log_size" => (n.ret = "value" /\ n.size = 0)
             /\ r.op = "search_logs" =>
                   (n.ret = "value" /\ n.results = <<>> /\ n.count = 0)
             /\ r.op = "archive_logs" => n.ret = "null"]_vars

\* Each of the three calls has ended on an absent file: here the archive call.
C3_Witness ==
    \E p \in Procs :
        /\ proc[p].op = "archive_logs" /\ proc[p].pc = "done"
        /\ proc[p].ret = "null" /\ proc[p].path = <<>>
        /\ ~Exists(get_log_file_path(proc[p].log_type))

\* The step is the rename or the recreation of a rotation.
RotationStep == \E p \in Procs : proc[p].pc \in {"al_rename", "al_create"} /\ proc'[p] # proc[p]

\* C4: with one call at a time and outside the steps of a rotation, no step
\* makes a log file smaller, and once a log file is at or above MAX_LOG_SIZE
\* (exactly at it included) every step leaves its content as it is.
C4_AppendsStopAtCap ==
    [][~RotationStep =>
          \A f \in ActiveFiles :
              /\ SizeOf(f)' >= SizeOf(f)
              /\ (Exists(f) /\ Len(fs[f]) >= MAX_LOG_SIZE) =>
                     (f \in DOMAIN fs' /\ fs'[f] = fs[f])]_vars

\* The request log is exactly at the threshold and a request that would have
\* been logged has returned from the size check without writing.
C4_Witness ==
    /\ Exists(LOG_FILE) /\ Len(fs[LOG_FILE]) = MAX_LOG_SIZE
    /\ proc[First].op = "log_flask_request" /\ proc[First].pc = "done"
    /\ proc[First].req = RemotePage /\ ~proc[First].wrote /\ proc[First].exc = "none"

\* C5 as stated: no log file is ever larger than MAX_LOG_SIZE.
C5_NeverExceeds ==
    \A f \in ActiveFiles : Exists(f) => Len(fs[f]) <= MAX_LOG_SIZE

\* The address log_flask_request logs for a request.
AddressOf(q) ==
    IF q.remote_addr = NoAddr THEN <<"U","n","k","n","o","w","n"," ","I","P">>
    ELSE q.remote_addr

\* The sizes of the lines the calls can write with inputs `in`: a request line
\* with each location its address can get (N/A for a local one, else failed
\* or answered), and an error line for a
\* message of the serving layer, a failed lookup and a failed rotation.
LineSizes(in) ==
    LET places(q) ==
            IF AddressOf(q) \in {LOCAL_IP, LOCALHOST}
            THEN { <<GEO_NA, GEO_NA, GEO_NA>> }
            ELSE { <<GEO_FAILED, GEO_FAILED, GEO_FAILED>> }
                 \cup { <<DataGet(d, "country"), DataGet(d, "regionName"),
                          DataGet(d, "city")>> : d \in in.data }
        errors == in.messages
                  \cup { GeoFailedMessage(a, ExcText(e)) :
                           a \in in.addresses \cup {AddressOf(q) : q \in in.requests},
                           e \in in.failures }
                  \cup { ArchiveFailedMessage(ExcText(e)) :
                           e \in {"PermissionError", "FileNotFoundError"} }
    IN  UNION { { Len(LOG_FORMAT(StrfTimeLine(0), AddressOf(q), g[1], g[2], g[3],
                                 Referer, Method, q.full_path, q.user_agent)) + 1 :
                    g \in places(q) } : q \in in.requests }
        \cup { Len(ErrorEntry(StrfTimeLine(0), m)) + 1 : m \in errors }

\* The size of the longest of these lines.
LongestLine(in) == CHOOSE n \in LineSizes(in) : \A m \in LineSizes(in) : m <= n

\* The most a file can hold: MAX_LOG_SIZE - 1 when the last size check passed,
\* and one longest line for each handler that can be past its size check.
MostBytes == MAX_LOG_SIZE - 1 + Cardinality(Procs) * LongestLine(Narrow)

\* C5, amended: a file of the directory is never larger than MAX_LOG_SIZE - 1
\* plus one longest line for each handler that can be past its size check.
C5_BoundedOvershoot ==
    \A f \in DOMAIN fs : Len(fs[f]) <= MostBytes

\* The request log has grown past the threshold and a later request has been
\* dropped at the size check.
C5_Witness ==
    /\ Exists(LOG_FILE) /\ Len(fs[LOG_FILE]) > MAX_LOG_SIZE
    /\ \E p \in Procs :
          /\ proc[p].op = "log_flask_request" /\ proc[p].pc = "done"
          /\ proc[p].req = RemotePage /\ ~proc[p].wrote /\ proc[p].exc = "none"

\* The lines of `data` that hold `term`, newest first, at most MAX_RETURN.
NewestMatching(lines, term) ==
    Take(Reverse(SelectSeq(lines, LAMBDA l : Matches(l, term))), MAX_RETURN)

\* A search has returned from a file that is there.
Searched(r) ==
    /\ r.op = "search_logs" /\ r.pc = "done" /\ r.ret = "value"
    /\ Exists(get_log_file_path(r.log_type))

\* C6 as stated: search_logs returns exactly the lines l1..ln of the file that
\* hold the term in any case, newest first, cut to the first MAX_RETURN, and
\* count is the number of results.
C6_SearchExact ==
    \A p \in Procs :
        LET r == proc[p] IN
        Searched(r) =>
            /\ r.results = NewestMatching(PlainLines(fs[get_log_file_path(r.log_type)]),
                                          r.term)
            /\ r.count = Len(r.results)

\* C6, amended: the term is looked for in each line with its line end, and
\* each line returned is stripped of the blanks at its two ends.
C6_SearchStripped ==
    \A p \in Procs :
        LET r == proc[p]
            found == NewestMatching(ReadLines(fs[get_log_file_path(r.log_type)]), r.term) IN
        Searched(r) =>
            /\ r.results = [i \in 1..Len(found) |-> Strip(found[i])]
            /\ r.count = Len(r.results)

\* A search with the empty term over a file of more than MAX_RETURN lines has
\* returned MAX_RETURN of them.
C6_Witness ==
    \E p \in Procs :
        /\ Searched(proc[p]) /\ proc[p].term = <<>>
        /\ Len(ReadLines(fs[get_log_file_path(proc[p].log_type)])) > MAX_RETURN
        /\ proc[p].count = MAX_RETURN

\* C7: get_geolocation raises nothing; when the lookup fails it returns the
\* three GeoIP-Failed sentinels and the failure's line is in the error log.
C7_GeolocationNeverRaises ==
    \A p \in Procs :
        LET r == proc[p] IN
        (r.op = "get_geolocation" /\ r.pc = "done")
        => /\ r.exc = "none"
           /\ r.msg # <<>> =>
                 /\ r.geo = <<GEO_FAILED, GEO_FAILED, GEO_FAILED>>
                 /\ Exists(ERROR_LOG_FILE)
                 /\ Contains(fs[ERROR_LOG_FILE], r.msg \o <<"\n">>)

\* C8: log_flask_request returns normally whatever the directory holds.
C8_LoggingNeverRaises ==
    \A p \in Procs :
        (proc[p].op = "log_flask_request" /\ proc[p].pc = "done") => proc[p].exc = "none"

\* C9: when the rename or the recreation inside archive_logs raises an OSError,
\* the call raises nothing, returns (None, None) and the failure's line is in
\* the error log.
C9_ArchiveFailureCaught ==
    \A p \in Procs :
        LET r == proc[p] IN
        (r.op = "archive_logs" /\ r.pc = "done" /\ r.msg # <<>>)
        => /\ r.exc = "none" /\ r.ret = "null"
           /\ Exists(ERROR_LOG_FILE)
           /\ Contains(fs[ERROR_LOG_FILE], r.msg \o <<"\n">>)

\* C10: an active log file that exists is never made absent by a step.
C10_ActiveFilesStay ==
    [][\A f \in ActiveFiles : Exists(f) => f \in DOMAIN fs']_vars

\* The archives: every file of the directory that is not an active log file
\* (archive_logs alone makes them).
Archives == DOMAIN fs \ ActiveFiles

\* C11: with one call at a time, no step deletes an archive or changes its
\* content, a second archive_logs of the same kind in the same clock second
\* included.
C11_ArchivesKept ==
    [][\A f \in Archives : f \in DOMAIN fs' /\ fs'[f] = fs[f]]_vars

\* C12: with one writer and outside the steps of a rotation, a step leaves
\* every active log file in place with its old content as a prefix of the new;
\* a step that changes the file is the write of a call and puts that call's
\* entry after the last line, so the lines are in the order of the calls.
C12_AppendOnly ==
    [][~RotationStep =>
          \A f \in ActiveFiles :
              Exists(f) =>
                  /\ f \in DOMAIN fs'
                  /\ IsPrefix(fs[f], fs'[f])
                  /\ fs'[f] # fs[f] =>
                        \E p \in Procs :
                            LET line == proc[p].entry \o <<"\n">> IN
                            /\ proc[p].pc \in {"le_write", "lf_write"}
                            /\ fs'[f] = fs[f] \o line
                            /\ ReadLines(fs'[f]) = Append(ReadLines(fs[f]), line)]_vars

\* Two requests have been logged one after the other into an empty access
\* log: it holds their two lines, the second call's last.
C12_Witness ==
    /\ calls = 2
    /\ proc[First].op = "log_flask_request" /\ proc[First].pc = "done" /\ proc[First].wrote
    /\ Exists(LOG_FILE)
    /\ Len(ReadLines(fs[LOG_FILE])) = 2
    /\ ReadLines(fs[LOG_FILE])[2] = proc[First].entry \o <<"\n">>

\* The path of a request: its full path without the query string.
PathOf(q) == CutAt(q.full_path, {"?"})

\* The path ends in a static-asset extension, whatever the case, or is an
\* ignored route.
StaticPath(q) ==
    \/ EndsWithAny(Lower(PathOf(q)), STATIC_ASSET_EXTENSIONS)
    \/ PathOf(q) \in IGNORED_ROUTES

\* C13: while log_flask_request runs for a request whose path ends in a
\* static-asset extension or is an ignored route, no step changes the access log.
C13_StaticNotLogged ==
    [][\A p \in Procs :
          (proc[p].op = "log_flask_request" /\ StaticPath(proc[p].req))
          => /\ Exists(LOG_FILE) <=> LOG_FILE \in DOMAIN fs'
             /\ Exists(LOG_FILE) => fs'[LOG_FILE] = fs[LOG_FILE]]_vars

\* C14: the step of get_geolocation on "127.0.0.1" or "localhost" returns
\* ("N/A", "N/A", "N/A"), with no lookup issued, nothing raised and the
\* directory left as it was.
C14_LocalNoLookup ==
    [][\A p \in Procs :
          LET r == proc[p]
              n == proc'[p] IN
          (/\ r.op = "get_geolocation" /\ r.pc = "gg_request"
           /\ r.ip \in {LOCAL_IP, LOCALHOST}
           /\ n # r)
          => /\ n.pc = "done" /\ n.exc = "none" /\ n.ret = "value"
             /\ n.geo = <<GEO_NA, GEO_NA, GEO_NA>>
             /\ ~n.net
             /\ fs' = fs]_vars

\* get_geolocation("localhost") has returned.
C14_Witness ==
    \E p \in Procs :
        /\ proc[p].op = "get_geolocation" /\ proc[p].pc = "done"
        /\ proc[p].ip = LOCALHOST
        /\ proc[p].geo = <<GEO_NA, GEO_NA, GEO_NA>>

\* C15: when an authorized GET on /api/logs/archive has been served and the log
\* file of the kind exists, the file has been rotated into an archive named
\* {prefix}_archive_{YYYYMMDD_HHMMSS}.log and the client has been sent that
\* archive as an attachment.
C15_ArchiveRouteDownloads ==
    \A p \in Procs :
        LET r == proc[p] IN
        (/\ r.route = "archive" /\ r.stage = "left"
         /\ Exists(get_log_file_path(r.log_type)))
        => /\ r.exc = "none"
           /\ r.resp = "attachment"
           /\ \E t \in 0..MaxClock : Exists(ArchivePath(r.log_type, t))

\* C16: when an admin route has been served and its operation failed (the
\* route called send_error), no exception has left do_GET and the client has
\* been sent a JSON error object with the numeric code.
C16_AdminFailureIsJson ==
    \A p \in Procs :
        LET r == proc[p] IN
        (r.route # "none" /\ r.stage = "left" /\ r.code # 0)
        => r.exc = "none" /\ r.resp = "json_error"

\* The request is one log_flask_request drops: is_static_asset or is_bot says so.
Suppressed(q) == is_static_asset(q.full_path) \/ is_bot(q.user_agent)

====
